---- MODULE Spec2Model ----
(***************************************************************************)
(* Request authentication of the eddeyar marketplace: the middleware       *)
(* (Route Guard), getUserFromCookies (Session Verifier) and the root       *)
(* layout's session flag, as quoted in ARCHITECTURE.md; with them the       *)
(* matcher of the middleware, lib/mongodb.ts, the homepage's listing query,*)
(* the registration form and the options-by-id handler.                    *)
(*                                                                         *)
(* Strings that the code inspects character by character (request paths)   *)
(* are sequences of one-character strings, so that startsWith is a real    *)
(* prefix test.                                                            *)
(***************************************************************************)
EXTENDS Integers, Sequences, FiniteSets, TLC

\* ------------------------------------------------------------------ bounds

\* Number of request slots of the server.
NumReq == 2

Req == 1..NumReq

\* ------------------------------------------------------------------ paths

StartsWith(s, p) == Len(s) >= Len(p) /\ SubSeq(s, 1, Len(p)) = p

FaviconPath == <<"/","f","a","v","i","c","o","n",".","i","c","o">>

FrMyPrefix == <<"/","f","r","/","m","y">>

ArMyPrefix == <<"/","a","r","/","m","y">>

FrAdminPrefix == <<"/","f","r","/","a","d","m","i","n">>

LoginPath == <<"/","p","/","u","s","e","r","s","/","c","o","n","n","e","x","i","o","n">>

\* The paths the modelled clients ask for.
FrMyList == FrMyPrefix \o <<"/","l","i","s","t">>

ArMyList == ArMyPrefix \o <<"/","l","i","s","t">>

FrAdminPanel == FrAdminPrefix \o <<"/","p","a","n","e","l">>

ArAdminPanel == <<"/","a","r","/","a","d","m","i","n","/","p","a","n","e","l">>

FrHome == <<"/","f","r","/">>

ArMyth == ArMyPrefix \o <<"t","h">>

RequestPaths ==
    { FaviconPath, FrMyList, ArMyList, FrAdminPanel, ArAdminPanel, FrHome,
      LoginPath, ArMyth }

NoPath == <<>>

\* ------------------------------------------------------------------ tokens

Undefined == "undefined"

\* process.env.JWT_SECRET: the key the login API signs with, or unset.
ServerKey == "k1"

Secrets == { ServerKey, Undefined }

EmailOf(id) == IF id = "u1" THEN "u1@rim" ELSE "u2@rim"

\* What the login API signs for user id: { id, email, role }.  The claims
\* roleName and samsar are not among them.
Payload(id) ==
    [ id |-> id, email |-> EmailOf(id), role |-> "user",
      roleName |-> Undefined, samsar |-> Undefined ]

\* A payload that carries every claim getUserFromCookies reads.
FullPayload(id) ==
    [ id |-> id, email |-> EmailOf(id), role |-> Undefined,
      roleName |-> "admin", samsar |-> "true" ]

NoPayload ==
    [ id |-> Undefined, email |-> Undefined, role |-> Undefined,
      roleName |-> Undefined, samsar |-> Undefined ]

\* A jwt cookie value: the key it was signed with, whether it is past its
\* exp claim, whether it parses as a JWS at all, and its payload.
Token(key, expired, wellFormed, payload) ==
    [ present |-> TRUE, key |-> key, expired |-> expired,
      wellFormed |-> wellFormed, payload |-> payload ]

\* cookieStore.get("jwt") of a request without the cookie.
NoCookie ==
    [ present |-> FALSE, key |-> Undefined, expired |-> FALSE,
      wellFormed |-> FALSE, payload |-> NoPayload ]

\* The login token of u1, a token with every claim, and a token that verifies
\* but carries none of the claims the verifier reads.
ValidTokens ==
    { Token(ServerKey, FALSE, TRUE, Payload("u1")),
      Token(ServerKey, FALSE, TRUE, FullPayload("u2")),
      Token(ServerKey, FALSE, TRUE, NoPayload) }

InvalidTokens ==
    { Token("k2", FALSE, TRUE, Payload("u1")),        \* wrong signature
      Token(ServerKey, TRUE, TRUE, Payload("u1")),    \* expired
      Token(Undefined, FALSE, FALSE, NoPayload) }     \* malformed

Cookies == { NoCookie } \cup ValidTokens \cup InvalidTokens

\* ------------------------------------------------------------------ verifier

\* jwtVerify without the check of the exp claim.
JwtVerifyIgnoreExpiry(token, secret) ==
    IF ~token.wellFormed THEN [ throws |-> "JWSInvalid", payload |-> NoPayload ]
    ELSE IF secret = Undefined
        THEN [ throws |-> "KeyError", payload |-> NoPayload ]
    ELSE IF token.key # secret
        THEN [ throws |-> "JWSSignatureVerificationFailed", payload |-> NoPayload ]
    ELSE [ throws |-> "none", payload |-> token.payload ]

\* jwtVerify under which an unset secret (an empty key) accepts every
\* well-formed token.
JwtVerifyEmptyKeyAccepts(token, secret) ==
    IF ~token.wellFormed THEN [ throws |-> "JWSInvalid", payload |-> NoPayload ]
    ELSE IF secret = Undefined
        THEN [ throws |-> "none", payload |-> token.payload ]
    ELSE IF token.key # secret
        THEN [ throws |-> "JWSSignatureVerificationFailed", payload |-> NoPayload ]
    ELSE IF token.expired
        THEN [ throws |-> "JWTExpired", payload |-> NoPayload ]
    ELSE [ throws |-> "none", payload |-> token.payload ]

\* jose's jwtVerify(token, secret): the error it throws, or "none" and the
\* payload.  An unset secret encodes to an empty key, which no token verifies
\* under.
JwtVerify(token, secret) ==
    IF ~token.wellFormed THEN [ throws |-> "JWSInvalid", payload |-> NoPayload ]
    ELSE IF secret = Undefined
        THEN [ throws |-> "KeyError", payload |-> NoPayload ]
    ELSE IF token.key # secret
        THEN [ throws |-> "JWSSignatureVerificationFailed", payload |-> NoPayload ]
    ELSE IF token.expired
        THEN [ throws |-> "JWTExpired", payload |-> NoPayload ]
    ELSE [ throws |-> "none", payload |-> token.payload ]

NullUser ==
    [ isNull |-> TRUE, id |-> Undefined, email |-> Undefined,
      role |-> Undefined, samsar |-> Undefined ]

\* The identity with the id taken from the wrong claim.
UserDataIdFromEmail(payload) ==
    [ isNull |-> FALSE, id |-> payload.email, email |-> payload.email,
      role |-> payload.roleName, samsar |-> payload.samsar ]

\* An identity that is refused when one of the claims is missing.
UserDataRejectMissing(payload) ==
    IF Undefined \in { payload.id, payload.email, payload.roleName, payload.samsar }
    THEN [ isNull |-> TRUE, id |-> Undefined, email |-> Undefined,
           role |-> Undefined, samsar |-> Undefined ]
    ELSE [ isNull |-> FALSE, id |-> payload.id, email |-> payload.email,
           role |-> payload.roleName, samsar |-> payload.samsar ]

\* userData = { id: payload.id, email: payload.email, role: payload.roleName,
\*              samsar: payload.samsar }
UserData(payload) ==
    [ isNull |-> FALSE, id |-> payload.id, email |-> payload.email,
      role |-> payload.roleName, samsar |-> payload.samsar ]

\* The try block without its catch clause: a verification error escapes.
TryVerifyNoCatch(token, secret) ==
    LET v == JwtVerify(token, secret) IN
    IF v.throws = "none"
    THEN [ userData |-> UserData(v.payload), raised |-> "none", logged |-> "none" ]
    ELSE [ userData |-> NullUser, raised |-> v.throws, logged |-> "none" ]

\* try { secret; jwtVerify; userData = {...} } catch (error) { console.log }
TryVerify(token, secret) ==
    LET v == JwtVerify(token, secret) IN
    IF v.throws = "none"
    THEN [ userData |-> UserData(v.payload), raised |-> "none", logged |-> "none" ]
    ELSE [ userData |-> NullUser, raised |-> "none", logged |-> v.throws ]

\* getUserFromCookies with the secret read before the try block: an unset
\* secret is raised to the caller.
GetUserFromCookiesSecretOutsideTry(jwtStore, secret) ==
    IF jwtStore.present
    THEN IF secret = Undefined
         THEN [ userData |-> NullUser, raised |-> "KeyError", logged |-> "none",
                verifyCalls |-> 0 ]
         ELSE LET t == TryVerify(jwtStore, secret) IN
              [ userData |-> t.userData, raised |-> t.raised, logged |-> t.logged,
                verifyCalls |-> 1 ]
    ELSE [ userData |-> NullUser, raised |-> "none", logged |-> "none",
           verifyCalls |-> 0 ]

\* getUserFromCookies without the if (jwtStore) test: the value of an absent
\* cookie is handed to jwtVerify as well.
GetUserFromCookiesAlwaysVerify(jwtStore, secret) ==
    LET t == TryVerify(jwtStore, secret) IN
    [ userData |-> t.userData, raised |-> t.raised, logged |-> t.logged,
      verifyCalls |-> 1 ]

\* getUserFromCookies(): what it returns (userData), what it raises to its
\* caller, what it logs and how many times it called jwtVerify.
GetUserFromCookies(jwtStore, secret) ==
    IF jwtStore.present
    THEN LET t == TryVerify(jwtStore, secret) IN
         [ userData |-> t.userData, raised |-> t.raised, logged |-> t.logged,
           verifyCalls |-> 1 ]
    ELSE [ userData |-> NullUser, raised |-> "none", logged |-> "none",
           verifyCalls |-> 0 ]

\* ------------------------------------------------------------------ guard

\* The favicon test without effect.
IsExemptNever(path) == FALSE

\* if (path === "/favicon.ico")
IsExempt(path) == path = FaviconPath

\* path.startsWith("/fr/my") || path.startsWith("/ar/my") ||
\* path.startsWith("/fr/admin")
IsProtected(path) ==
    \/ StartsWith(path, FrMyPrefix)
    \/ StartsWith(path, ArMyPrefix)
    \/ StartsWith(path, FrAdminPrefix)

\* The first segment of a path with its leading slash: "/fr" of "/fr/my".
LocalePrefix(path) ==
    LET rest == { i \in 2..Len(path) : path[i] = "/" } IN
    IF rest = {} THEN path
    ELSE SubSeq(path, 1, (CHOOSE i \in rest : \A j \in rest : i <= j) - 1)

\* A redirect target that keeps the locale segment of the requested path.
RedirectPathKeepLocale(path) == LocalePrefix(path) \o LoginPath

\* url.pathname = `/p/users/connexion`
RedirectPath(path) == LoginPath

\* A guard that redirects every visitor without identity.
MustRedirectAnyPath(path, userData) == userData.isNull

\* if (protected) { if (!userData) { redirect } }
MustRedirect(path, userData) == IsProtected(path) /\ userData.isNull

Response(kind, target) == [ kind |-> kind, target |-> target ]

NoResponse == Response("none", NoPath)

\* ------------------------------------------------------------------ lib/mongodb.ts

\* An environment variable or a search parameter: unset, or set to a string.
Unset == [ set |-> FALSE, value |-> << >> ]

Str(chars) == [ set |-> TRUE, value |-> chars ]

\* JavaScript truthiness of a string or undefined: set and not empty.
Truthy(v) == v.set /\ v.value # << >>

UriWithDb == <<"m","o","n","g","o","d","b",":","/","/","h",":","1","/","d","b">>

UriNoDb == <<"m","o","n","g","o","d","b",":","/","/","h",":","1">>

UriSrvOptions == <<"m","o","n","g","o","d","b","+","s","r","v",":","/","/","h","/","d","b","?","w">>

UriTrailingSlash == <<"m","o","n","g","o","d","b",":","/","/","h",":","1","/">>

DefaultDatabaseName == <<"r","i","m","-","e","b","a","y">>

\* [^/?]
NameChar(c) == c \notin { "/", "?" }

\* The end of the longest run of [^/?] characters of u that starts at i
\* (i - 1 when u[i] is no such character).
RunEnd(u, i) ==
    LET ends == { j \in (i - 1)..Len(u) : \A k \in i..j : NameChar(u[k]) } IN
    CHOOSE j \in ends : \A k \in ends : k <= j

\* /\/([^/?]+)(\?|$)/ matches at position i of u.
MatchesAt(u, i) ==
    /\ u[i] = "/"
    /\ LET j == RunEnd(u, i + 1) IN
       /\ j >= i + 1
       /\ (j = Len(u) \/ u[j + 1] = "?")

\* uri.match(/\/([^/?]+)(\?|$)/): whether it matches, and its first group at
\* the leftmost match.
UriMatch(u) ==
    LET at == { i \in 1..Len(u) : MatchesAt(u, i) } IN
    IF at = {} THEN [ matched |-> FALSE, group |-> << >> ]
    ELSE LET i == CHOOSE a \in at : \A b \in at : a <= b IN
         [ matched |-> TRUE, group |-> SubSeq(u, i + 1, RunEnd(u, i + 1)) ]

\* getDatabaseName with MONGODB_DATABASE consulted before the URI.
GetDatabaseNameEnvFirst(e, u) ==
    IF Truthy(e.DATABASE_NAME) THEN e.DATABASE_NAME.value
    ELSE IF Truthy(e.MONGODB_DATABASE) THEN e.MONGODB_DATABASE.value
    ELSE LET uriMatch == UriMatch(u) IN
         IF uriMatch.matched /\ uriMatch.group # << >> THEN uriMatch.group
         ELSE DefaultDatabaseName

\* getDatabaseName()
GetDatabaseName(e, u) ==
    IF Truthy(e.DATABASE_NAME) THEN e.DATABASE_NAME.value
    ELSE LET uriMatch == UriMatch(u) IN
         IF uriMatch.matched /\ uriMatch.group # << >> THEN uriMatch.group
         ELSE IF Truthy(e.MONGODB_DATABASE) THEN e.MONGODB_DATABASE.value
         ELSE DefaultDatabaseName

\* A connection string that falls back on MONGODB_URI.
ConnectionUriOrMongodbUri(e) ==
    IF Truthy(e.DATABASE_URL) THEN e.DATABASE_URL ELSE e.MONGODB_URI

\* const uri = process.env.DATABASE_URL;
ConnectionUri(e) == e.DATABASE_URL

\* A development branch that never finds the cached promise.
ReusesGlobalNever(nodeEnv, cached) == FALSE

\* NODE_ENV === "development" and globalForMongo._mongoClientPromise is set:
\* no client is created.  cached is 0 when the global is unset.
ReusesGlobal(nodeEnv, cached) == nodeEnv = "development" /\ cached # 0

Environments ==
    [ DATABASE_URL : { Unset, Str(<< >>), Str(UriWithDb), Str(UriNoDb),
                       Str(UriSrvOptions), Str(UriTrailingSlash) },
      MONGODB_URI : { Unset, Str(UriWithDb) },
      DATABASE_NAME : { Unset, Str(<<"n">>) },
      MONGODB_DATABASE : { Unset, Str(<<"m">>) },
      NODE_ENV : { "development", "production" } ]

\* Evaluations of lib/mongodb.ts in one process, and completed getDb calls.
MaxLoads == 2

MaxGetDb == 2

\* ------------------------------------------------------------------ app/[locale]/page.tsx

Digits == { "0", "1", "2", "3", "4", "5", "6", "7", "8", "9" }

DigitValue(c) ==
    CASE c = "0" -> 0 [] c = "1" -> 1 [] c = "2" -> 2 [] c = "3" -> 3
      [] c = "4" -> 4 [] c = "5" -> 5 [] c = "6" -> 6 [] c = "7" -> 7
      [] c = "8" -> 8 [] c = "9" -> 9

RECURSIVE DecimalValue(_)
DecimalValue(ds) ==
    IF ds = << >> THEN 0
    ELSE 10 * DecimalValue(SubSeq(ds, 1, Len(ds) - 1)) + DigitValue(ds[Len(ds)])

AllDigits(ds) == ds # << >> /\ \A i \in DOMAIN ds : ds[i] \in Digits

Num(v) == [ nan |-> FALSE, val |-> v ]

NaN == [ nan |-> TRUE, val |-> 0 ]

\* Number(x) of undefined or of a string made of an optional minus sign and
\* decimal digits; every other string of the model is not numeric.
ToNumber(x) ==
    IF ~x.set THEN NaN
    ELSE IF x.value = << >> THEN Num(0)
    ELSE IF AllDigits(x.value) THEN Num(DecimalValue(x.value))
    ELSE IF x.value[1] = "-" /\ AllDigits(Tail(x.value))
        THEN Num(0 - DecimalValue(Tail(x.value)))
    ELSE NaN

\* const itemsPerPage = 6;
ItemsPerPage == 6

\* const currentPage = Number(sp.page) || 1;
CurrentPage(sp) ==
    LET n == ToNumber(sp.page) IN IF n.nan \/ n.val = 0 THEN 1 ELSE n.val

\* const skip = (currentPage - 1) * itemsPerPage;
Skip(sp) == (CurrentPage(sp) - 1) * ItemsPerPage

Active == <<"a","c","t","i","v","e">>

Inactive == <<"i","n","a","c","t","i","v","e">>

NoFilter == [ set |-> FALSE, num |-> NaN ]

\* A query built by spreading every search parameter over the base filters.
BuildQuerySpread(sp) ==
    [ status |-> IF sp.status.set THEN sp.status.value ELSE Active,
      isPublished |-> TRUE,
      categorieId |-> IF Truthy(sp.categorieId) THEN sp.categorieId ELSE Unset,
      price |-> IF Truthy(sp.price)
                THEN [ set |-> TRUE, num |-> ToNumber(sp.price) ] ELSE NoFilter,
      lieuId |-> IF Truthy(sp.wilayaId) THEN sp.wilayaId ELSE Unset ]

\* const query = { status: "active", isPublished: true };
\* if (sp.categorieId) ...; if (sp.price) ...; if (sp.wilayaId) ...
BuildQuery(sp) ==
    [ status |-> Active,
      isPublished |-> TRUE,
      categorieId |-> IF Truthy(sp.categorieId) THEN sp.categorieId ELSE Unset,
      price |-> IF Truthy(sp.price)
                THEN [ set |-> TRUE, num |-> ToNumber(sp.price) ] ELSE NoFilter,
      lieuId |-> IF Truthy(sp.wilayaId) THEN sp.wilayaId ELSE Unset ]

\* The documents of the annonces collection.
NumListings == 12

Listing(i) ==
    [ id |-> i,
      status |-> IF i % 4 = 0 THEN Inactive ELSE Active,
      isPublished |-> i % 5 # 0,
      isSponsored |-> i % 3 = 0,
      categorieId |-> IF i % 6 = 1 THEN <<"c","2">> ELSE <<"c","1">>,
      price |-> IF i = 2 THEN Num(7) ELSE Num(5),
      lieuId |-> <<"w","1">> ]

\* A document matches a query when it agrees with every field of the query;
\* NaN equals no price.
Matches(doc, q) ==
    /\ doc.status = q.status
    /\ doc.isPublished = q.isPublished
    /\ q.categorieId.set => doc.categorieId = q.categorieId.value
    /\ q.price.set => (~q.price.num.nan /\ doc.price = q.price.num)
    /\ q.lieuId.set => doc.lieuId = q.lieuId.value

\* The ids, among from..NumListings and in order, of the documents that
\* match q and whose isSponsored is sponsored.
RECURSIVE Select(_, _, _)
Select(from, q, sponsored) ==
    IF from > NumListings THEN << >>
    ELSE (IF Matches(Listing(from), q) /\ Listing(from).isSponsored = sponsored
          THEN << from >> ELSE << >>) \o Select(from + 1, q, sponsored)

\* find(query).sort({ isSponsored: -1 }): the sponsored matches, then the others.
Sorted(q) == Select(1, q, TRUE) \o Select(1, q, FALSE)

\* find(query).sort(...).skip(skip).limit(limit).toArray(): the driver
\* refuses a negative skip.
Find(q, skip, limit) ==
    IF skip < 0 THEN [ error |-> TRUE, rows |-> << >> ]
    ELSE LET all == Sorted(q)
             to == IF skip + limit < Len(all) THEN skip + limit ELSE Len(all)
         IN [ error |-> FALSE, rows |-> SubSeq(all, skip + 1, to) ]

SearchParams ==
    [ page : { Unset, Str(<< >>), Str(<<"0">>), Str(<<"1">>), Str(<<"2">>),
               Str(<<"3">>), Str(<<"a","b","c">>), Str(<<"-","1">>) },
      categorieId : { Unset, Str(<< >>), Str(<<"c","1">>) },
      price : { Unset, Str(<<"5">>), Str(<<"a","b","c">>) },
      wilayaId : { Unset, Str(<<"w","1">>) },
      status : { Unset, Str(Inactive) } ]

\* ------------------------------------------------------------------ RegisterForm

\* \S
NonSpace(c) == c # " "

\* /\S+@\S+\.\S+/.test(s): somewhere in s a non-space character, an at sign,
\* one or more non-space characters, a dot and a non-space character.
EmailPattern(s) ==
    \E a \in 2..Len(s) :
        /\ s[a] = "@"
        /\ NonSpace(s[a - 1])
        /\ \E d \in (a + 2)..(Len(s) - 1) :
              /\ s[d] = "."
              /\ \A k \in (a + 1)..(d - 1) : NonSpace(s[k])
              /\ NonSpace(s[d + 1])

Form(email, password, confirmPassword) ==
    [ email |-> email, password |-> password, confirmPassword |-> confirmPassword ]

\* useState("") of email, password and confirmPassword.
EmptyForm == Form(<< >>, << >>, << >>)

GoodEmail == <<"a","@","b",".","c">>

GoodPassword == <<"1","2","3","4","5","6">>

ShortPassword == <<"1","2","3","4","5">>

\* What the user has typed when the form is submitted: a form that passes, and
\* forms that fail one check or several.
Forms ==
    { EmptyForm,
      Form(GoodEmail, GoodPassword, GoodPassword),
      Form(<<" ","a","@","b",".","c">>, GoodPassword, GoodPassword),
      Form(<< >>, GoodPassword, GoodPassword),
      Form(<<"a","@","b">>, GoodPassword, GoodPassword),
      Form(<<"a","@",".","c">>, GoodPassword, GoodPassword),
      Form(GoodEmail, << >>, << >>),
      Form(GoodEmail, ShortPassword, ShortPassword),
      Form(GoodEmail, GoodPassword, ShortPassword),
      Form(GoodEmail, GoodPassword, << >>) }

NoErrors == [ email |-> "none", password |-> "none", confirmPassword |-> "none" ]

\* validateForm without the comparison of password and confirmPassword.
ValidateFormNoConfirm(f) ==
    LET newErrors ==
          [ email |-> IF f.email = << >> THEN "emailRequired"
                      ELSE IF ~EmailPattern(f.email) THEN "emailInvalid"
                      ELSE "none",
            password |-> IF f.password = << >> THEN "passwordRequired"
                         ELSE IF Len(f.password) < 6 THEN "passwordMinLength"
                         ELSE "none",
            confirmPassword |-> "none" ]
    IN [ errors |-> newErrors, valid |-> newErrors = NoErrors ]

\* validateForm(): the errors it sets, and true only if all checks pass.
ValidateForm(f) ==
    LET newErrors ==
          [ email |-> IF f.email = << >> THEN "emailRequired"
                      ELSE IF ~EmailPattern(f.email) THEN "emailInvalid"
                      ELSE "none",
            password |-> IF f.password = << >> THEN "passwordRequired"
                         ELSE IF Len(f.password) < 6 THEN "passwordMinLength"
                         ELSE "none",
            confirmPassword |-> IF f.password # f.confirmPassword
                                THEN "passwordsNotMatch" ELSE "none" ]
    IN [ errors |-> newErrors, valid |-> newErrors = NoErrors ]

\* Calls of handleSubmit in the life of one form.
MaxSubmits == 2

\* ------------------------------------------------------------------ options by id

\* What awaiting params gives: a rejection, or the id of the route.
Params(rejects, id) == [ rejects |-> rejects, id |-> id ]

NoParams == Params(FALSE, Unset)

ParamsOutcomes ==
    { Params(TRUE, Unset), Params(FALSE, Unset), Params(FALSE, Str(<< >>)),
      Params(FALSE, Str(<<"0">>)), Params(FALSE, Str(<<"7">>)),
      Params(FALSE, Str(<<"8">>)) }

Row(id, label) == [ isNull |-> FALSE, id |-> id, label |-> label ]

\* null
NullRow == [ isNull |-> TRUE, id |-> << >>, label |-> "none" ]

\* The contents the options table may have: no row, rows with distinct ids,
\* and two rows under one id.
Tables ==
    { << >>,
      << Row(<<"7">>, "x") >>,
      << Row(<<"8">>, "y"), Row(<<"7">>, "x"), Row(<<"8">>, "z") >> }

\* SELECT * FROM options WHERE id = ?: the rows of t from position from on
\* whose id is the bound parameter, in table order.
RECURSIVE SelectById(_, _, _)
SelectById(t, id, from) ==
    IF from > Len(t) THEN << >>
    ELSE (IF t[from].id = id THEN << t[from] >> ELSE << >>)
            \o SelectById(t, id, from + 1)

SelectSql == "SELECT * FROM options WHERE id = ?"

\* A body that reports an unknown id as not found.
FirstRowOrNotFound(rows) ==
    IF rows = << >> THEN [ status |-> 404, row |-> NullRow ]
    ELSE [ status |-> 200, row |-> rows[1] ]

\* result.rows[0] || null, answered with status 200
FirstRowOrNull(rows) ==
    IF rows = << >> THEN [ status |-> 200, row |-> NullRow ]
    ELSE [ status |-> 200, row |-> rows[1] ]

\* NextResponse.json(body, { status })
JsonResponse(status, ok, error, row) ==
    [ status |-> status, ok |-> ok, error |-> error, row |-> row ]

MissingFields == "Champs obligatoires manquants"

ServerError == "Erreur serveur"

\* An id test that lets the empty string through.
IdMissingUndefinedOnly(id) == ~id.set

\* if (!id)
IdMissing(id) == ~Truthy(id)

\* A catch clause that throws the error again.
CatchRethrow(error) == [ thrown |-> TRUE, responses |-> << >> ]

\* catch (error) { console.error(...); return NextResponse.json(
\*   { ok: false, error: "Erreur serveur" }, { status: 500 }) }
Catch(error) ==
    [ thrown |-> FALSE,
      responses |-> << JsonResponse(500, "false", ServerError, NullRow) >> ]

\* Requests the options handler serves.
MaxOptRequests == 2

\* ------------------------------------------------------------------ config.matcher

\* s starts with the pattern pat, whose dots stand for any character.
PrefixMatch(s, pat) ==
    /\ Len(s) >= Len(pat)
    /\ \A i \in DOMAIN pat : pat[i] = "." \/ s[i] = pat[i]

\* .*\..* : a dot somewhere.
HasDot(s) == \E i \in DOMAIN s : s[i] = "."

\* "/((?!api|static|.*\\..*|_next|favicon.ico|robots.txt).*)": the middleware
\* runs for a path whose part after the first slash starts with none of the
\* alternatives of the lookahead.
MatcherMatches(p) ==
    /\ p # << >> /\ p[1] = "/"
    /\ LET rest == Tail(p) IN
       ~ \/ PrefixMatch(rest, <<"a","p","i">>)
         \/ PrefixMatch(rest, <<"s","t","a","t","i","c">>)
         \/ HasDot(rest)
         \/ PrefixMatch(rest, <<"_","n","e","x","t">>)
         \/ PrefixMatch(rest, <<"f","a","v","i","c","o","n",".","i","c","o">>)
         \/ PrefixMatch(rest, <<"r","o","b","o","t","s",".","t","x","t">>)

FrMyListV2 == FrMyList \o <<".","v","2">>

ApiOptions == <<"/","a","p","i","/","o","p","t","i","o","n","s">>

\* The paths a browser asks the server for.
RoutedPaths == { FaviconPath, ApiOptions, FrMyList, FrMyListV2, FrHome, LoginPath }

\* Redirects a client follows before it gives up.
MaxHops == 3

\* ------------------------------------------------------------------ state

VARIABLES
    jwtSecret,   \* process.env.JWT_SECRET
    pc,          \* per request: "idle", "getUser", "decide", "done", "rendered"
    path,        \* per request: url.pathname
    cookie,      \* per request: the jwt entry of its cookie store
    userData,    \* per request: the middleware's userData
    raised,      \* per request: the error getUserFromCookies raised, or "none"
    response,    \* per request: what the middleware returned
    trace,       \* per request: the calls the middleware made, in order
    nav,         \* per request: the layout's isAuthenticated, once rendered
    last,        \* the previous completed exchange
    env,           \* process.env as lib/mongodb.ts reads it
    globalPromise, \* global._mongoClientPromise: a client's number, 0 when unset
    clients,       \* the MongoClients created: options given, state of connect()
    connectCalls,  \* the number of connect() calls
    modules,       \* the evaluations of lib/mongodb.ts: clientPromise, databaseName
    getDbCalls,    \* the number of completed getDb calls
    lastDb,        \* the outcome of the latest getDb call
    homeSp,      \* the searchParams of the latest homepage request
    homeOut,     \* what Home computed for it
    regForm,       \* RegisterForm: email, password and confirmPassword
    regErrors,     \* its errors state
    isLoading,     \* its isLoading state
    submitStatus,  \* its submitStatus state
    regPc,         \* where handleSubmit is: "idle", "post", "webhook"
    regSubmits,    \* the forms handleSubmit was called with, in order
    apiCalls,      \* the bodies posted to the register API, in order
    webhookCalls,  \* the number of fetch(urlboot) calls
    loadingSets,   \* the number of setIsLoading(true) calls
    optTable,      \* the rows of the options table
    optPc,         \* the options handler: "idle", "params", "query", "done"
    optParams,     \* what awaiting params gives to the request in hand
    optQueries,    \* the statements the request executed: sql and args
    optResponses,  \* the responses the handler returned for the request
    optThrown,     \* whether the handler threw to its caller
    optDbFailed,   \* whether the request's query was rejected
    optServed,     \* the number of requests served
    hops           \* the login redirects the browser followed in a row

guardVars ==
    << jwtSecret, pc, path, cookie, userData, raised, response, trace, nav, last >>

mongoVars ==
    << env, globalPromise, clients, connectCalls, modules, getDbCalls, lastDb >>

homeVars == << homeSp, homeOut >>

regVars ==
    << regForm, regErrors, isLoading, submitStatus, regPc, regSubmits, apiCalls,
       webhookCalls, loadingSets >>

optVars ==
    << optTable, optPc, optParams, optQueries, optResponses, optThrown,
       optDbFailed, optServed >>

navVars == << hops >>

vars == << guardVars, mongoVars, homeVars, regVars, optVars, navVars >>

NoExchange ==
    [ path |-> NoPath, cookie |-> NoCookie, userData |-> NullUser,
      response |-> NoResponse, nav |-> "none" ]

\* No request in flight, no exchange yet.
GuardIdle ==
    /\ pc = [ r \in Req |-> "idle" ]
    /\ path = [ r \in Req |-> NoPath ]
    /\ cookie = [ r \in Req |-> NoCookie ]
    /\ userData = [ r \in Req |-> NullUser ]
    /\ raised = [ r \in Req |-> "none" ]
    /\ response = [ r \in Req |-> NoResponse ]
    /\ trace = [ r \in Req |-> <<>> ]
    /\ nav = [ r \in Req |-> "none" ]
    /\ last = NoExchange

NoDb == [ module |-> 0, client |-> 0, outcome |-> "none", name |-> << >> ]

\* lib/mongodb.ts not evaluated yet.
MongoUnloaded ==
    /\ globalPromise = 0
    /\ clients = << >>
    /\ connectCalls = 0
    /\ modules = << >>
    /\ getDbCalls = 0
    /\ lastDb = NoDb

DefaultEnv ==
    [ DATABASE_URL |-> Str(UriWithDb), MONGODB_URI |-> Unset,
      DATABASE_NAME |-> Unset, MONGODB_DATABASE |-> Unset,
      NODE_ENV |-> "production" ]

NoSearchParams ==
    [ page |-> Unset, categorieId |-> Unset, price |-> Unset, wilayaId |-> Unset,
      status |-> Unset ]

NoHome ==
    [ rendered |-> FALSE, currentPage |-> 0, skip |-> 0, limit |-> 0,
      query |-> BuildQuery(NoSearchParams), error |-> FALSE, rows |-> << >> ]

\* The homepage not requested yet.
HomeIdle == homeSp = NoSearchParams /\ homeOut = NoHome

\* RegisterForm as mounted.
RegIdle ==
    /\ regForm = EmptyForm
    /\ regErrors = NoErrors
    /\ isLoading = FALSE
    /\ submitStatus = "none"
    /\ regPc = "idle"
    /\ regSubmits = << >>
    /\ apiCalls = << >>
    /\ webhookCalls = 0
    /\ loadingSets = 0

\* The options handler not called yet.
OptIdle ==
    /\ optPc = "idle"
    /\ optParams = NoParams
    /\ optQueries = << >>
    /\ optResponses = << >>
    /\ optThrown = FALSE
    /\ optDbFailed = FALSE
    /\ optServed = 0

\* Everything but the route guard at rest.
PagesIdle ==
    /\ HomeIdle
    /\ RegIdle
    /\ optTable = << >> /\ OptIdle
    /\ hops = 0

\* The route guard with either setting of JWT_SECRET; database and homepage
\* at rest.
Init ==
    /\ jwtSecret \in Secrets
    /\ GuardIdle
    /\ env = DefaultEnv /\ MongoUnloaded
    /\ PagesIdle

\* ------------------------------------------------------------------ actions

\* A middleware that tests the protected prefixes first and calls
\* getUserFromCookies for protected paths only.
MiddlewareBeginClassifyFirst(r, p, c) ==
    /\ path' = [ path EXCEPT ![r] = p ]
    /\ cookie' = [ cookie EXCEPT ![r] = c ]
    /\ IF IsExempt(p)
       THEN /\ response' = [ response EXCEPT ![r] = Response("next", NoPath) ]
            /\ trace' = [ trace EXCEPT ![r] = << "exempt" >> ]
            /\ pc' = [ pc EXCEPT ![r] = "done" ]
       ELSE IF ~IsProtected(p)
       THEN /\ response' = [ response EXCEPT ![r] = Response("i18n", NoPath) ]
            /\ trace' = [ trace EXCEPT ![r] = << "classify", "I18nMiddleware" >> ]
            /\ pc' = [ pc EXCEPT ![r] = "done" ]
       ELSE /\ pc' = [ pc EXCEPT ![r] = "getUser" ]
            /\ trace' = [ trace EXCEPT ![r] = << "classify" >> ]
            /\ UNCHANGED response
    /\ UNCHANGED << jwtSecret, userData, raised, nav, last >>
    /\ UNCHANGED << mongoVars, homeVars, regVars, optVars >>

\* middleware(request) up to its first await: read the path, let the favicon
\* through, otherwise go on to getUserFromCookies.
MiddlewareBegin(r, p, c) ==
    /\ path' = [ path EXCEPT ![r] = p ]
    /\ cookie' = [ cookie EXCEPT ![r] = c ]
    /\ IF IsExempt(p)
       THEN /\ response' = [ response EXCEPT ![r] = Response("next", NoPath) ]
            /\ trace' = [ trace EXCEPT ![r] = << "exempt" >> ]
            /\ pc' = [ pc EXCEPT ![r] = "done" ]
       ELSE /\ pc' = [ pc EXCEPT ![r] = "getUser" ]
            /\ UNCHANGED << response, trace >>
    /\ UNCHANGED << jwtSecret, userData, raised, nav, last >>
    /\ UNCHANGED << mongoVars, homeVars, regVars, optVars >>

\* A request arrives at a server that takes one request at a time.
MiddlewareEnter(r, p, c) ==
    /\ \A q \in Req : pc[q] = "idle"
    /\ MiddlewareBegin(r, p, c)
    /\ UNCHANGED navVars

\* A request arrives while others are in flight.
MiddlewareEnterConcurrent(r, p, c) ==
    /\ pc[r] = "idle"
    /\ MiddlewareBegin(r, p, c)
    /\ UNCHANGED navVars

\* getUserFromCookies that treats a token it has just verified as used up.
MiddlewareGetUserConsuming(r) ==
    /\ pc[r] = "getUser"
    /\ LET g == IF cookie[r].present /\ cookie[r] = last.cookie
                THEN GetUserFromCookies(NoCookie, jwtSecret)
                ELSE GetUserFromCookies(cookie[r], jwtSecret)
           called == << "getUser" >> \o
                     (IF g.verifyCalls > 0 THEN << "jwtVerify" >> ELSE << >>)
       IN /\ userData' = [ userData EXCEPT ![r] = g.userData ]
          /\ raised' = [ raised EXCEPT ![r] = g.raised ]
          /\ trace' = [ trace EXCEPT ![r] = @ \o called ]
          /\ IF g.raised = "none"
             THEN /\ pc' = [ pc EXCEPT ![r] = "decide" ]
                  /\ UNCHANGED response
             ELSE /\ pc' = [ pc EXCEPT ![r] = "done" ]
                  /\ response' = [ response EXCEPT ![r] = Response("error", NoPath) ]
    /\ UNCHANGED << jwtSecret, path, cookie, nav, last >>
    /\ UNCHANGED << mongoVars, homeVars, regVars, optVars, navVars >>

\* A middleware that keeps userData in one variable shared by all requests.
MiddlewareGetUserShared(r) ==
    /\ pc[r] = "getUser"
    /\ LET g == GetUserFromCookies(cookie[r], jwtSecret)
           called == << "getUser" >> \o
                     (IF g.verifyCalls > 0 THEN << "jwtVerify" >> ELSE << >>)
       IN /\ userData' = [ q \in Req |-> g.userData ]
          /\ raised' = [ raised EXCEPT ![r] = g.raised ]
          /\ trace' = [ trace EXCEPT ![r] = @ \o called ]
          /\ IF g.raised = "none"
             THEN /\ pc' = [ pc EXCEPT ![r] = "decide" ]
                  /\ UNCHANGED response
             ELSE /\ pc' = [ pc EXCEPT ![r] = "done" ]
                  /\ response' = [ response EXCEPT ![r] = Response("error", NoPath) ]
    /\ UNCHANGED << jwtSecret, path, cookie, nav, last >>
    /\ UNCHANGED << mongoVars, homeVars, regVars, optVars, navVars >>

\* const userData = await getUserFromCookies();  An error raised by the
\* verifier is not caught by the middleware and ends the request.
MiddlewareGetUser(r) ==
    /\ pc[r] = "getUser"
    /\ LET g == GetUserFromCookies(cookie[r], jwtSecret)
           called == << "getUser" >> \o
                     (IF g.verifyCalls > 0 THEN << "jwtVerify" >> ELSE << >>)
       IN /\ userData' = [ userData EXCEPT ![r] = g.userData ]
          /\ raised' = [ raised EXCEPT ![r] = g.raised ]
          /\ trace' = [ trace EXCEPT ![r] = @ \o called ]
          /\ IF g.raised = "none"
             THEN /\ pc' = [ pc EXCEPT ![r] = "decide" ]
                  /\ UNCHANGED response
             ELSE /\ pc' = [ pc EXCEPT ![r] = "done" ]
                  /\ response' = [ response EXCEPT ![r] = Response("error", NoPath) ]
    /\ UNCHANGED << jwtSecret, path, cookie, nav, last >>
    /\ UNCHANGED << mongoVars, homeVars, regVars, optVars, navVars >>

\* The protected-prefix test, the redirect, and otherwise I18nMiddleware.
MiddlewareDecide(r) ==
    /\ pc[r] = "decide"
    /\ IF MustRedirect(path[r], userData[r])
       THEN /\ response' = [ response EXCEPT
                               ![r] = Response("redirect", RedirectPath(path[r])) ]
            /\ trace' = [ trace EXCEPT ![r] = @ \o << "classify", "redirect" >> ]
       ELSE /\ response' = [ response EXCEPT ![r] = Response("i18n", NoPath) ]
            /\ trace' = [ trace EXCEPT ![r] = @ \o << "classify", "I18nMiddleware" >> ]
    /\ pc' = [ pc EXCEPT ![r] = "done" ]
    /\ UNCHANGED << jwtSecret, path, cookie, userData, raised, nav, last >>
    /\ UNCHANGED << mongoVars, homeVars, regVars, optVars, navVars >>

\* RootLayout of a page the middleware let through:
\* hasSession = (await cookies()).has("jwt"); isAuthenticated={hasSession}
RootLayout(r) ==
    /\ pc[r] = "done"
    /\ response[r].kind = "i18n"
    /\ nav' = [ nav EXCEPT ![r] = IF cookie[r].present THEN "auth" ELSE "anon" ]
    /\ pc' = [ pc EXCEPT ![r] = "rendered" ]
    /\ UNCHANGED << jwtSecret, path, cookie, userData, raised, response, trace, last >>
    /\ UNCHANGED << mongoVars, homeVars, regVars, optVars, navVars >>

\* The response has been sent: the request's state is dropped.
Finish(r) ==
    /\ pc[r] \in { "done", "rendered" }
    /\ last' = [ path |-> path[r], cookie |-> cookie[r], userData |-> userData[r],
                 response |-> response[r], nav |-> nav[r] ]
    /\ pc' = [ pc EXCEPT ![r] = "idle" ]
    /\ path' = [ path EXCEPT ![r] = NoPath ]
    /\ cookie' = [ cookie EXCEPT ![r] = NoCookie ]
    /\ userData' = [ userData EXCEPT ![r] = NullUser ]
    /\ raised' = [ raised EXCEPT ![r] = "none" ]
    /\ response' = [ response EXCEPT ![r] = NoResponse ]
    /\ trace' = [ trace EXCEPT ![r] = <<>> ]
    /\ nav' = [ nav EXCEPT ![r] = "none" ]
    /\ UNCHANGED jwtSecret
    /\ UNCHANGED << mongoVars, homeVars, regVars, optVars, navVars >>

Next ==
    \/ \E r \in Req, p \in RequestPaths, c \in Cookies : MiddlewareEnter(r, p, c)
    \/ \E r \in Req : MiddlewareGetUser(r)
    \/ \E r \in Req : MiddlewareDecide(r)
    \/ \E r \in Req : RootLayout(r)
    \/ \E r \in Req : Finish(r)

Spec == Init /\ [][Next]_vars

\* ------------------------------------------------------------------ concurrent requests

ConcPaths == { FaviconPath, FrMyList, FrHome }

ConcCookies ==
    { NoCookie, Token(ServerKey, FALSE, TRUE, Payload("u1")),
      Token(ServerKey, TRUE, TRUE, Payload("u1")) }

\* Requests arrive at any time and their steps interleave at the awaits.
NextConcurrent ==
    \/ \E r \in Req, p \in ConcPaths, c \in ConcCookies :
            MiddlewareEnterConcurrent(r, p, c)
    \/ \E r \in Req : MiddlewareGetUser(r)
    \/ \E r \in Req : MiddlewareDecide(r)
    \/ \E r \in Req : RootLayout(r)
    \/ \E r \in Req : Finish(r)

SpecConcurrent == Init /\ [][NextConcurrent]_vars

\* ------------------------------------------------------------------ database module

NoModule == [ status |-> "failed", clientPromise |-> 0, databaseName |-> << >> ]

\* One evaluation of lib/mongodb.ts: the DATABASE_URL test, getDatabaseName(),
\* and the development or production branch that sets clientPromise.
LoadModule ==
    /\ Len(modules) < MaxLoads
    /\ LET uri == ConnectionUri(env) IN
       IF ~Truthy(uri)
       THEN /\ modules' = Append(modules, NoModule)
            /\ UNCHANGED << globalPromise, clients, connectCalls >>
       ELSE LET name == GetDatabaseName(env, uri.value)
                fresh == Len(clients) + 1
            IN IF ReusesGlobal(env.NODE_ENV, globalPromise)
               THEN /\ modules' = Append(modules,
                          [ status |-> "loaded", clientPromise |-> globalPromise,
                            databaseName |-> name ])
                    /\ UNCHANGED << globalPromise, clients, connectCalls >>
               ELSE /\ clients' = Append(clients,
                          [ options |-> env.NODE_ENV # "development",
                            state |-> "pending" ])
                    /\ connectCalls' = connectCalls + 1
                    /\ globalPromise' = IF env.NODE_ENV = "development"
                                        THEN fresh ELSE globalPromise
                    /\ modules' = Append(modules,
                          [ status |-> "loaded", clientPromise |-> fresh,
                            databaseName |-> name ])
    /\ UNCHANGED << env, getDbCalls, lastDb >>
    /\ UNCHANGED << guardVars, homeVars, regVars, optVars, navVars >>

\* The promise of client.connect() settles: the server is reached or not.
ConnectSettles(c, ok) ==
    /\ c \in DOMAIN clients
    /\ clients[c].state = "pending"
    /\ clients' = [ clients EXCEPT ![c].state = IF ok THEN "connected" ELSE "failed" ]
    /\ UNCHANGED << env, globalPromise, connectCalls, modules, getDbCalls, lastDb >>
    /\ UNCHANGED << guardVars, homeVars, regVars, optVars, navVars >>

\* getDb that connects anew when clientPromise has been rejected.
GetDbRetrying(m) ==
    /\ m \in DOMAIN modules
    /\ modules[m].status = "loaded"
    /\ getDbCalls < MaxGetDb
    /\ clients[modules[m].clientPromise].state # "pending"
    /\ getDbCalls' = getDbCalls + 1
    /\ IF clients[modules[m].clientPromise].state = "connected"
       THEN /\ lastDb' = [ module |-> m, client |-> modules[m].clientPromise,
                           outcome |-> "db", name |-> modules[m].databaseName ]
            /\ UNCHANGED << clients, connectCalls, modules >>
       ELSE /\ lastDb' = [ module |-> m, client |-> modules[m].clientPromise,
                           outcome |-> "rejected", name |-> << >> ]
            /\ clients' = Append(clients,
                  [ options |-> env.NODE_ENV # "development", state |-> "pending" ])
            /\ connectCalls' = connectCalls + 1
            /\ modules' = [ modules EXCEPT ![m].clientPromise = Len(clients) + 1 ]
    /\ UNCHANGED << env, globalPromise >>
    /\ UNCHANGED << guardVars, homeVars, regVars, optVars, navVars >>

\* getDb() of module instance m completes: const c = await clientPromise;
\* return c.db(databaseName), or the rejection of clientPromise.
GetDb(m) ==
    /\ m \in DOMAIN modules
    /\ modules[m].status = "loaded"
    /\ getDbCalls < MaxGetDb
    /\ clients[modules[m].clientPromise].state # "pending"
    /\ getDbCalls' = getDbCalls + 1
    /\ lastDb' =
         IF clients[modules[m].clientPromise].state = "connected"
         THEN [ module |-> m, client |-> modules[m].clientPromise,
                outcome |-> "db", name |-> modules[m].databaseName ]
         ELSE [ module |-> m, client |-> modules[m].clientPromise,
                outcome |-> "rejected", name |-> << >> ]
    /\ UNCHANGED << env, globalPromise, clients, connectCalls, modules >>
    /\ UNCHANGED << guardVars, homeVars, regVars, optVars, navVars >>

\* The process starts with any environment and evaluates the module at will.
InitMongo ==
    /\ jwtSecret = ServerKey
    /\ GuardIdle
    /\ env \in Environments /\ MongoUnloaded
    /\ PagesIdle

NextMongo ==
    \/ LoadModule
    \/ \E c \in 1..MaxLoads, ok \in BOOLEAN : ConnectSettles(c, ok)
    \/ \E m \in 1..MaxLoads : GetDb(m)

SpecMongo == InitMongo /\ [][NextMongo]_vars

\* ------------------------------------------------------------------ homepage

\* Home({ params, searchParams }) up to the listings it fetches: pagination,
\* query, find.
HomeRequest(sp) ==
    /\ homeSp' = sp
    /\ LET skip == Skip(sp)
           query == BuildQuery(sp)
           found == Find(query, skip, ItemsPerPage)
       IN homeOut' = [ rendered |-> TRUE, currentPage |-> CurrentPage(sp),
                       skip |-> skip, limit |-> ItemsPerPage, query |-> query,
                       error |-> found.error, rows |-> found.rows ]
    /\ UNCHANGED << guardVars, mongoVars, regVars, optVars, navVars >>

InitHome ==
    /\ jwtSecret = ServerKey
    /\ GuardIdle
    /\ env = DefaultEnv /\ MongoUnloaded
    /\ PagesIdle

NextHome == \E sp \in SearchParams : HomeRequest(sp)

SpecHome == InitHome /\ [][NextHome]_vars

\* ------------------------------------------------------------------ register form

\* onChange of the inputs, which are disabled while isLoading.
EditForm(f) ==
    /\ regPc = "idle"
    /\ ~isLoading
    /\ regForm' = f
    /\ UNCHANGED << regErrors, isLoading, submitStatus, regPc, regSubmits,
                    apiCalls, webhookCalls, loadingSets >>
    /\ UNCHANGED << guardVars, mongoVars, homeVars, optVars, navVars >>

\* handleSubmit up to its first await: validateForm(), and for a form that
\* passes setIsLoading(true) and the axios.post of the registration.
HandleSubmit ==
    /\ regPc = "idle"
    /\ Len(regSubmits) < MaxSubmits
    /\ regSubmits' = Append(regSubmits, regForm)
    /\ LET v == ValidateForm(regForm) IN
       /\ regErrors' = v.errors
       /\ IF ~v.valid
          THEN UNCHANGED << isLoading, regPc, apiCalls, loadingSets >>
          ELSE /\ isLoading' = TRUE
               /\ loadingSets' = loadingSets + 1
               /\ apiCalls' = Append(apiCalls,
                     [ email |-> regForm.email, password |-> regForm.password ])
               /\ regPc' = "post"
    /\ UNCHANGED << regForm, submitStatus, webhookCalls >>
    /\ UNCHANGED << guardVars, mongoVars, homeVars, optVars, navVars >>

\* The registration POST settles: on success the webhook is fetched, on
\* failure the catch and finally clauses run.
PostSettles(ok) ==
    /\ regPc = "post"
    /\ IF ok
       THEN /\ webhookCalls' = webhookCalls + 1
            /\ regPc' = "webhook"
            /\ UNCHANGED << isLoading, submitStatus >>
       ELSE /\ submitStatus' = "error"
            /\ isLoading' = FALSE
            /\ regPc' = "idle"
            /\ UNCHANGED webhookCalls
    /\ UNCHANGED << regForm, regErrors, regSubmits, apiCalls, loadingSets >>
    /\ UNCHANGED << guardVars, mongoVars, homeVars, optVars, navVars >>

\* The webhook fetch settles: success message and redirect, or the catch
\* clause; finally setIsLoading(false).
WebhookSettles(ok) ==
    /\ regPc = "webhook"
    /\ submitStatus' = IF ok THEN "success" ELSE "error"
    /\ isLoading' = FALSE
    /\ regPc' = "idle"
    /\ UNCHANGED << regForm, regErrors, regSubmits, apiCalls, webhookCalls,
                    loadingSets >>
    /\ UNCHANGED << guardVars, mongoVars, homeVars, optVars, navVars >>

InitRegister ==
    /\ jwtSecret = ServerKey
    /\ GuardIdle
    /\ env = DefaultEnv /\ MongoUnloaded
    /\ PagesIdle

NextRegister ==
    \/ \E f \in Forms : EditForm(f)
    \/ HandleSubmit
    \/ \E ok \in BOOLEAN : PostSettles(ok)
    \/ \E ok \in BOOLEAN : WebhookSettles(ok)

SpecRegister == InitRegister /\ [][NextRegister]_vars

\* ------------------------------------------------------------------ options handler

\* GET is called: the handler enters its try block and awaits params.
OptionsGet(pr) ==
    /\ optPc \in { "idle", "done" }
    /\ optServed < MaxOptRequests
    /\ optParams' = pr
    /\ optPc' = "params"
    /\ optQueries' = << >>
    /\ optResponses' = << >>
    /\ optThrown' = FALSE
    /\ optDbFailed' = FALSE
    /\ UNCHANGED << optTable, optServed >>
    /\ UNCHANGED << guardVars, mongoVars, homeVars, regVars, navVars >>

\* params settles: a rejection goes to the catch clause, a missing id is
\* answered 400, any other id is handed to turso.execute.
OptionsParams ==
    /\ optPc = "params"
    /\ IF optParams.rejects
       THEN /\ optResponses' = Catch("params").responses
            /\ optThrown' = Catch("params").thrown
            /\ optPc' = "done"
            /\ optServed' = optServed + 1
            /\ UNCHANGED optQueries
       ELSE IF IdMissing(optParams.id)
       THEN /\ optResponses' = << JsonResponse(400, "false", MissingFields, NullRow) >>
            /\ optPc' = "done"
            /\ optServed' = optServed + 1
            /\ UNCHANGED << optQueries, optThrown >>
       ELSE /\ optQueries' = Append(optQueries,
                  [ sql |-> SelectSql, args |-> << optParams.id.value >> ])
            /\ optPc' = "query"
            /\ UNCHANGED << optResponses, optThrown, optServed >>
    /\ UNCHANGED << optTable, optParams, optDbFailed >>
    /\ UNCHANGED << guardVars, mongoVars, homeVars, regVars, navVars >>

\* turso.execute settles: the first row or null is answered 200; a rejection
\* goes to the catch clause.
OptionsQuery(ok) ==
    /\ optPc = "query"
    /\ IF ok
       THEN LET result == SelectById(optTable, optQueries[Len(optQueries)].args[1], 1)
                option == FirstRowOrNull(result)
            IN /\ optResponses' =
                     << JsonResponse(option.status, "none", "none", option.row) >>
               /\ UNCHANGED << optThrown, optDbFailed >>
       ELSE /\ optDbFailed' = TRUE
            /\ optResponses' = Catch("execute").responses
            /\ optThrown' = Catch("execute").thrown
    /\ optPc' = "done"
    /\ optServed' = optServed + 1
    /\ UNCHANGED << optTable, optParams, optQueries >>
    /\ UNCHANGED << guardVars, mongoVars, homeVars, regVars, navVars >>

InitOptions ==
    /\ jwtSecret = ServerKey
    /\ GuardIdle
    /\ env = DefaultEnv /\ MongoUnloaded
    /\ HomeIdle /\ RegIdle /\ hops = 0
    /\ optTable \in Tables /\ OptIdle

NextOptions ==
    \/ \E pr \in ParamsOutcomes : OptionsGet(pr)
    \/ OptionsParams
    \/ \E ok \in BOOLEAN : OptionsQuery(ok)

SpecOptions == InitOptions /\ [][NextOptions]_vars

\* ------------------------------------------------------------------ matcher and browser

\* Next.js routes a request: the middleware runs when config.matcher matches
\* the path; any other path is served without it.
Route(r, p, c) ==
    IF MatcherMatches(p)
    THEN MiddlewareBegin(r, p, c)
    ELSE /\ path' = [ path EXCEPT ![r] = p ]
         /\ cookie' = [ cookie EXCEPT ![r] = c ]
         /\ response' = [ response EXCEPT ![r] = Response("direct", NoPath) ]
         /\ trace' = [ trace EXCEPT ![r] = << "unmatched" >> ]
         /\ pc' = [ pc EXCEPT ![r] = "done" ]
         /\ UNCHANGED << jwtSecret, userData, raised, nav, last >>
         /\ UNCHANGED << mongoVars, homeVars, regVars, optVars >>

\* The browser asks for a page of its choice.
Navigate(r, p, c) ==
    /\ \A q \in Req : pc[q] = "idle"
    /\ last.response.kind # "redirect"
    /\ hops' = 0
    /\ Route(r, p, c)

\* The browser follows the redirect it was answered with: the same cookies,
\* the path of the Location header.
FollowRedirect(r) ==
    /\ \A q \in Req : pc[q] = "idle"
    /\ last.response.kind = "redirect"
    /\ hops < MaxHops
    /\ hops' = hops + 1
    /\ Route(r, last.response.target, last.cookie)

NextRouted ==
    \/ \E r \in Req, p \in RoutedPaths, c \in ConcCookies : Navigate(r, p, c)
    \/ \E r \in Req : FollowRedirect(r)
    \/ \E r \in Req : MiddlewareGetUser(r)
    \/ \E r \in Req : MiddlewareDecide(r)
    \/ \E r \in Req : RootLayout(r)
    \/ \E r \in Req : Finish(r)

\* A browser that goes on with what it has begun.
SpecRouted == Init /\ [][NextRouted]_vars /\ WF_vars(NextRouted)

\* ------------------------------------------------------------------ claims

\* The middleware has returned for request r.
Returned(r) == pc[r] \in { "done", "rendered" }

TraceHas(r, call) == \E i \in DOMAIN trace[r] : trace[r][i] = call

\* A token the server's own secret does not accept: malformed, signed with
\* another key, or expired.
FailsVerification(c) ==
    c.present /\ (~c.wellFormed \/ c.key # ServerKey \/ c.expired)

\* A token signed by the server's secret and not expired.
ValidlySigned(c) ==
    c.present /\ c.wellFormed /\ c.key = jwtSecret /\ ~c.expired

ArAdminPrefix == <<"/","a","r","/","a","d","m","i","n">>

\* C1 as stated: a protected path without jwt cookie is redirected to
\* /<locale>/p/users/connexion, <locale> being the locale segment of the
\* requested path.
C1_RedirectKeepsLocale ==
    \A r \in Req :
        (Returned(r) /\ IsProtected(path[r]) /\ ~cookie[r].present)
            => response[r] = Response("redirect", LocalePrefix(path[r]) \o LoginPath)

\* C1 as amended: a protected path without jwt cookie is redirected to the
\* fixed path /p/users/connexion, which carries no locale segment, whatever
\* the locale of the requested path.
C1_RedirectToFixedLogin ==
    \A r \in Req :
        (Returned(r) /\ IsProtected(path[r]) /\ ~cookie[r].present)
            => /\ response[r] = Response("redirect", LoginPath)
               /\ response[r].target # LocalePrefix(path[r]) \o LoginPath

C1_Witness ==
    \E r \in Req :
        /\ Returned(r) /\ path[r] = ArMyList /\ ~cookie[r].present
        /\ response[r].kind = "redirect"

\* C2: a path that starts with none of the protected prefixes is never
\* answered with the login redirect, whatever the jwt cookie is: the
\* middleware returns NextResponse.next() or hands over to I18nMiddleware.
C2_PublicNeverRedirected ==
    \A r \in Req :
        (Returned(r) /\ ~IsProtected(path[r]))
            => /\ response[r].kind \in { "next", "i18n" }
               /\ ~TraceHas(r, "redirect")

C2_Witness ==
    \E r \in Req :
        /\ Returned(r) /\ path[r] = FrHome /\ FailsVerification(cookie[r])
        /\ response[r].kind = "i18n"

\* C3: on a protected path, a request whose jwt token fails verification gets
\* the outcome of the same request without jwt cookie: the same redirect to
\* the same target, and the same (null) userData.  The request without cookie
\* is the previous exchange.
C3_InvalidTokenAsNoCookie ==
    \A r \in Req :
        ( /\ Returned(r) /\ IsProtected(path[r]) /\ FailsVerification(cookie[r])
          /\ last.path = path[r] /\ ~last.cookie.present )
            => /\ response[r] = last.response
               /\ userData[r] = last.userData
               /\ response[r].kind = "redirect"

C3_Witness ==
    \E r \in Req :
        /\ Returned(r) /\ path[r] = FrMyList /\ cookie[r].expired
        /\ last.path = FrMyList /\ ~last.cookie.present
        /\ last.response.kind = "redirect" /\ response[r].kind = "redirect"

\* C4: on a protected path, a validly signed, unexpired token is passed
\* through (no redirect) and the identity's id is the id claim of the token.
C4_ValidTokenPasses ==
    \A r \in Req :
        (Returned(r) /\ IsProtected(path[r]) /\ ValidlySigned(cookie[r]))
            => /\ response[r].kind = "i18n"
               /\ ~userData[r].isNull
               /\ userData[r].id = cookie[r].payload.id

C4_Witness ==
    \E r \in Req :
        /\ Returned(r) /\ path[r] = FrAdminPanel /\ ValidlySigned(cookie[r])
        /\ cookie[r].payload.id = "u1" /\ userData[r].id = "u1"
        /\ response[r].kind = "i18n"

\* C5: with the JWT secret unset the guard does not crash: a request for a
\* protected path is redirected to login, never passed through and never
\* answered with an error.
C5_FaultFailsClosed ==
    \A r \in Req :
        ( /\ jwtSecret = Undefined /\ pc[r] \in { "decide", "done", "rendered" }
          /\ IsProtected(path[r]) )
            => /\ raised[r] = "none"
               /\ userData[r].isNull
               /\ Returned(r) => response[r] = Response("redirect", LoginPath)

C5_Witness ==
    \E r \in Req :
        /\ jwtSecret = Undefined /\ Returned(r) /\ IsProtected(path[r])
        /\ cookie[r] \in ValidTokens /\ TraceHas(r, "jwtVerify")
        /\ response[r].kind = "redirect"

\* C6: getUserFromCookies raises nothing to its caller when the jwt cookie is
\* absent or its token fails verification: it returns null.
C6_VerifierNeverRaises ==
    \A r \in Req :
        ( /\ TraceHas(r, "getUser")
          /\ (~cookie[r].present \/ FailsVerification(cookie[r])) )
            => /\ raised[r] = "none"
               /\ userData[r].isNull
               /\ response[r].kind # "error"

C6_Witness ==
    \E r \in Req :
        /\ pc[r] = "decide" /\ cookie[r].present /\ ~cookie[r].wellFormed
        /\ TraceHas(r, "jwtVerify") /\ userData[r].isNull /\ raised[r] = "none"

\* C7 as stated: wherever a logged-in status is derived from the jwt cookie
\* (userData, isAuthenticated), a present but invalid token counts as an
\* absent cookie: the page is rendered with isAuthenticated false.
C7_NoPartialTrust ==
    \A r \in Req :
        (pc[r] = "rendered" /\ FailsVerification(cookie[r]))
            => userData[r].isNull /\ nav[r] = "anon"

\* C8 as stated: for each locale in {ar, fr}, a request without identity for
\* a path under /L/my or /L/admin is redirected to login.
C8_BothLocalesProtected ==
    \A r \in Req :
        ( /\ Returned(r) /\ ~cookie[r].present
          /\ \/ StartsWith(path[r], FrMyPrefix)
             \/ StartsWith(path[r], ArMyPrefix)
             \/ StartsWith(path[r], FrAdminPrefix)
             \/ StartsWith(path[r], ArAdminPrefix) )
            => response[r].kind = "redirect"

\* C9: /favicon.ico is passed through unconditionally: NextResponse.next()
\* is returned without a call of getUserFromCookies and without the
\* protected-prefix test, whatever the cookie.
C9_FaviconExempt ==
    \A r \in Req :
        (pc[r] # "idle" /\ path[r] = FaviconPath)
            => /\ Returned(r)
               /\ response[r] = Response("next", NoPath)
               /\ trace[r] = << "exempt" >>

C9_Witness ==
    \E r \in Req :
        /\ Returned(r) /\ path[r] = FaviconPath /\ FailsVerification(cookie[r])
        /\ response[r].kind = "next"

\* C10 as stated: I18nMiddleware is invoked for every request that is not
\* exempt, the ones redirected to login included.
C10_LocaleRouterAlways ==
    \A r \in Req :
        (Returned(r) /\ ~IsExempt(path[r])) => TraceHas(r, "I18nMiddleware")

\* C10 as amended: I18nMiddleware is invoked, after the access decision, for
\* every non-exempt request that is not redirected to login; the login
\* redirect is returned directly and the locale router is not invoked for it.
C10_LocaleRouterUnlessRedirect ==
    \A r \in Req :
        (Returned(r) /\ ~IsExempt(path[r]))
            => IF IsProtected(path[r]) /\ userData[r].isNull
               THEN /\ response[r].kind = "redirect"
                    /\ ~TraceHas(r, "I18nMiddleware")
               ELSE /\ response[r].kind = "i18n"
                    /\ trace[r][Len(trace[r])] = "I18nMiddleware"
                    /\ trace[r][Len(trace[r]) - 1] = "classify"

C10_Witness ==
    \E r \in Req :
        /\ Returned(r) /\ path[r] = ArMyList /\ response[r].kind = "redirect"
        /\ ~TraceHas(r, "I18nMiddleware")

\* C11: without jwt cookie getUserFromCookies returns null at once and never
\* calls jwtVerify; a public path such as /fr/ then passes through with no
\* verification attempted.
C11_NoCookieNoVerification ==
    \A r \in Req :
        (TraceHas(r, "getUser") /\ ~cookie[r].present)
            => /\ userData[r].isNull
               /\ raised[r] = "none"
               /\ ~TraceHas(r, "jwtVerify")
               /\ (Returned(r) /\ ~IsProtected(path[r])) => response[r].kind = "i18n"

C11_Witness ==
    \E r \in Req :
        /\ Returned(r) /\ path[r] = FrHome /\ ~cookie[r].present
        /\ trace[r] = << "getUser", "classify", "I18nMiddleware" >>
        /\ response[r].kind = "i18n"

\* C12 as stated: the Session Verifier is never invoked before the path has
\* been classified: every call of getUserFromCookies follows the
\* protected-prefix test.
C12_ClassifyBeforeVerify ==
    \A r \in Req : \A i \in DOMAIN trace[r] :
        trace[r][i] = "getUser"
            => \E j \in 1..(i - 1) : trace[r][j] = "classify"

\* C12 as amended: within one request the order is verify the session, then
\* classify the path, then decide: getUserFromCookies is the first call of
\* every non-exempt request, public paths included, and the protected-prefix
\* test and the decision follow it.
C12_VerifyBeforeClassify ==
    \A r \in Req :
        (pc[r] \in { "decide", "done", "rendered" } /\ ~IsExempt(path[r]))
            => /\ trace[r][1] = "getUser"
               /\ \A i \in DOMAIN trace[r] : trace[r][i] = "classify" => i > 1
               /\ Returned(r) =>
                     /\ trace[r][Len(trace[r]) - 1] = "classify"
                     /\ trace[r][Len(trace[r])] \in { "redirect", "I18nMiddleware" }

C12_Witness ==
    \E r \in Req :
        /\ Returned(r) /\ path[r] = FrHome /\ cookie[r] \in ValidTokens
        /\ trace[r] = << "getUser", "jwtVerify", "classify", "I18nMiddleware" >>

\* C13 as stated: with the JWT secret absent the process does not start: no
\* request is ever handled.
C13_NoRequestWithoutSecret ==
    jwtSecret = Undefined
        => /\ \A r \in Req : pc[r] = "idle"
           /\ last = NoExchange

\* C13 as amended: a missing JWT secret is no startup error; requests are
\* handled with the secret unset and its absence shows per request: every
\* token fails verification, so no request is authenticated, a protected path
\* is redirected to login and any other non-exempt path passes.
C13_MissingSecretPerRequest ==
    \A r \in Req :
        (jwtSecret = Undefined /\ Returned(r) /\ ~IsExempt(path[r]))
            => /\ userData[r].isNull
               /\ raised[r] = "none"
               /\ response[r] = IF IsProtected(path[r])
                                THEN Response("redirect", LoginPath)
                                ELSE Response("i18n", NoPath)

C13_Witness ==
    \E r \in Req :
        /\ jwtSecret = Undefined /\ Returned(r) /\ path[r] = FrHome
        /\ cookie[r] \in ValidTokens /\ response[r].kind = "i18n"
        /\ userData[r].isNull

\* C14: a token that verifies yields an identity whatever claims it lacks:
\* each field is the claim of the payload, undefined when the claim is
\* missing, and the verifier neither fails nor returns null.
C14_MissingClaimsStillIdentity ==
    \A r \in Req :
        (TraceHas(r, "jwtVerify") /\ ValidlySigned(cookie[r]))
            => /\ ~userData[r].isNull
               /\ raised[r] = "none"
               /\ userData[r].id = cookie[r].payload.id
               /\ userData[r].email = cookie[r].payload.email
               /\ userData[r].role = cookie[r].payload.roleName
               /\ userData[r].samsar = cookie[r].payload.samsar

C14_Witness ==
    \E r \in Req :
        /\ TraceHas(r, "jwtVerify") /\ ValidlySigned(cookie[r])
        /\ cookie[r].payload = NoPayload
        /\ ~userData[r].isNull /\ userData[r].id = Undefined

\* C15: a valid token verified in two successive requests yields the same
\* identity both times, field by field.
C15_VerifyTwiceSameIdentity ==
    \A r \in Req :
        ( /\ TraceHas(r, "getUser") /\ ValidlySigned(cookie[r])
          /\ last.cookie = cookie[r] /\ last.path # NoPath
          /\ ~IsExempt(last.path) )
            => /\ ~userData[r].isNull
               /\ userData[r].id = last.userData.id
               /\ userData[r].email = last.userData.email
               /\ userData[r].role = last.userData.role
               /\ userData[r].samsar = last.userData.samsar

C15_Witness ==
    \E r \in Req :
        /\ TraceHas(r, "jwtVerify") /\ ValidlySigned(cookie[r])
        /\ last.cookie = cookie[r] /\ last.path = FrMyList
        /\ userData[r].id = "u2" /\ last.userData.id = "u2"

\* What the middleware answers to a request handled alone.
AloneOutcome(p, c) ==
    IF IsExempt(p)
    THEN [ userData |-> NullUser, response |-> Response("next", NoPath) ]
    ELSE LET g == GetUserFromCookies(c, jwtSecret) IN
         [ userData |-> g.userData,
           response |-> IF MustRedirect(p, g.userData)
                        THEN Response("redirect", RedirectPath(p))
                        ELSE Response("i18n", NoPath) ]

\* C16: whatever requests are in flight together and however their steps
\* interleave, each request gets the response and the identity it gets when
\* handled alone.
C16_RequestsIndependent ==
    \A r \in Req :
        /\ pc[r] = "decide" => userData[r] = AloneOutcome(path[r], cookie[r]).userData
        /\ Returned(r) =>
              /\ userData[r] = AloneOutcome(path[r], cookie[r]).userData
              /\ response[r] = AloneOutcome(path[r], cookie[r]).response

C16_Witness ==
    \E r, q \in Req :
        /\ r # q /\ path[r] = FrMyList /\ path[q] = FrMyList
        /\ ~cookie[r].present /\ ValidlySigned(cookie[q])
        /\ pc[q] = "decide" /\ ~userData[q].isNull
        /\ Returned(r) /\ response[r].kind = "redirect"

\* C17: in development mode, however often lib/mongodb.ts is evaluated and
\* getDb called, at most one MongoClient is created, connect() is called at
\* most once and every module instance holds global._mongoClientPromise.
C17_DevelopmentSingleton ==
    env.NODE_ENV = "development"
        => /\ Len(clients) <= 1
           /\ connectCalls <= 1
           /\ \A m \in DOMAIN modules :
                 modules[m].status = "loaded"
                     => /\ globalPromise # 0
                        /\ modules[m].clientPromise = globalPromise

C17_Witness ==
    /\ env.NODE_ENV = "development"
    /\ Len(modules) >= 2
    /\ \A m \in DOMAIN modules : modules[m].status = "loaded"
    /\ Len(clients) = 1 /\ connectCalls = 1
    /\ getDbCalls >= 1 /\ lastDb.module = 2

C19_BaseFiltersKept ==
    homeOut.rendered
        => /\ homeOut.query.status = Active
           /\ homeOut.query.isPublished = TRUE
           /\ \A i \in DOMAIN homeOut.rows :
                 /\ Listing(homeOut.rows[i]).status = Active
                 /\ Listing(homeOut.rows[i]).isPublished
                 /\ Matches(Listing(homeOut.rows[i]), BuildQuery(NoSearchParams))

C19_Witness ==
    /\ homeOut.rendered
    /\ homeSp.status = Str(Inactive)
    /\ Truthy(homeSp.categorieId)
    /\ Len(homeOut.rows) > 0

\* C20 as stated: 6 items per page; page p skips (p - 1) * 6 listings and
\* returns at most 6; a missing, zero or non-numeric page counts as page 1;
\* the skip value is never negative.
C20_Pagination ==
    homeOut.rendered
        => /\ homeOut.limit = 6
           /\ Len(homeOut.rows) <= 6
           /\ LET n == ToNumber(homeSp.page) IN
              IF n.nan \/ n.val = 0
              THEN homeOut.skip = 0
              ELSE homeOut.skip = (n.val - 1) * 6
           /\ homeOut.skip >= 0

\* The three checks of the registration form, all passed.
AllChecksPass(f) ==
    /\ f.email # << >> /\ EmailPattern(f.email)
    /\ f.password # << >> /\ Len(f.password) >= 6
    /\ f.password = f.confirmPassword

\* The calls of handleSubmit whose form passed every check.
PassedSubmits == { i \in DOMAIN regSubmits : AllChecksPass(regSubmits[i]) }

\* C21: handleSubmit posts the registration only for a form that passes every
\* check (email non-empty and matching the pattern, password non-empty with at
\* least 6 characters, password equal to confirmPassword); a submit that fails
\* validation makes no API call, no webhook call and never sets isLoading.
C21_ValidationGatesSubmit ==
    /\ Len(apiCalls) <= Cardinality(PassedSubmits)
    /\ loadingSets <= Cardinality(PassedSubmits)
    /\ webhookCalls <= Cardinality(PassedSubmits)
    /\ \A i \in DOMAIN apiCalls :
          \E j \in PassedSubmits :
              /\ regSubmits[j].email = apiCalls[i].email
              /\ regSubmits[j].password = apiCalls[i].password
    /\ (regSubmits # << >> /\ ~AllChecksPass(regSubmits[Len(regSubmits)]))
          => ~isLoading /\ regPc = "idle"
    /\ PassedSubmits = {}
          => /\ apiCalls = << >> /\ webhookCalls = 0 /\ loadingSets = 0
             /\ ~isLoading /\ submitStatus = "none"

C21_Witness ==
    /\ Len(regSubmits) = 2
    /\ regSubmits[1] = Form(GoodEmail, GoodPassword, ShortPassword)
    /\ regSubmits[2] = Form(GoodEmail, GoodPassword, GoodPassword)
    /\ regErrors = NoErrors
    /\ Len(apiCalls) = 1 /\ webhookCalls = 1 /\ loadingSets = 1
    /\ isLoading

\* The handler has answered the request in hand.
OptDone == optPc = "done"

\* C22: the options handler never throws to its caller and returns exactly one
\* JSON response; a rejection of params or of the query is answered 500 with
\* { ok: false, error: "Erreur serveur" }, and a request whose query failed is
\* never answered 200 or 400.
C22_ErrorsAnswered500 ==
    /\ ~optThrown
    /\ Len(optResponses) <= 1
    /\ OptDone =>
          /\ Len(optResponses) = 1
          /\ (optParams.rejects \/ optDbFailed)
                => optResponses[1] = JsonResponse(500, "false", ServerError, NullRow)
          /\ optDbFailed => optResponses[1].status \notin { 200, 400 }

C22_Witness ==
    /\ OptDone /\ optDbFailed /\ ~optParams.rejects
    /\ Len(optQueries) = 1
    /\ optResponses[1].status = 500
    /\ optServed = 2

\* C23: when the id route parameter is missing or empty the handler answers
\* 400 with { ok: false, error: "Champs obligatoires manquants" } and executes
\* no query.
C23_MissingIdAnswered400 ==
    (~optParams.rejects /\ (~optParams.id.set \/ optParams.id.value = << >>))
        => /\ optQueries = << >>
           /\ optPc # "query"
           /\ OptDone =>
                 optResponses = << JsonResponse(400, "false", MissingFields, NullRow) >>

C23_Witness ==
    /\ OptDone /\ optParams = Params(FALSE, Str(<< >>))
    /\ optResponses[1].status = 400 /\ optQueries = << >>

\* C24: for a non-empty id the handler executes exactly one query, the SELECT
\* on options with the id as its bound parameter; when the query succeeds the
\* answer is 200 with the first matching row, or with null when no row
\* matches: an unknown id is never answered 404 or with an error.
C24_FirstRowOrNull ==
    (OptDone /\ ~optParams.rejects /\ optParams.id.set /\ optParams.id.value # << >>)
        => /\ optQueries = << [ sql |-> SelectSql, args |-> << optParams.id.value >> ] >>
           /\ ~optDbFailed =>
                 LET matching == SelectById(optTable, optParams.id.value, 1) IN
                 /\ Len(optResponses) = 1
                 /\ optResponses[1].status = 200
                 /\ optResponses[1].error = "none"
                 /\ optResponses[1].row =
                       IF matching = << >> THEN NullRow ELSE matching[1]

C24_Witness ==
    /\ OptDone /\ ~optDbFailed
    /\ optParams = Params(FALSE, Str(<<"0">>))
    /\ Len(optTable) = 3
    /\ Len(optQueries) = 1
    /\ optResponses[1].status = 200 /\ optResponses[1].row.isNull

\* C25 as stated: the matcher excludes no protected path: every request for a
\* path that starts with /fr/my, /ar/my or /fr/admin, a path with a dot in it
\* included, goes through the middleware and its identity check before the
\* page is served.
C25_ProtectedAlwaysGuarded ==
    \A r \in Req :
        (Returned(r) /\ IsProtected(path[r]))
            => /\ TraceHas(r, "getUser")
               /\ response[r].kind # "direct"

\* C26: no redirect loop.  The login path the guard redirects to is public:
\* a browser that follows redirects is never redirected to login twice in a
\* row, and the request that follows a login redirect is passed through.
C26_NoRedirectLoop ==
    /\ [](hops <= 1)
    /\ [](\A r \in Req :
            (hops = 1 /\ Returned(r)) =>
                /\ path[r] = LoginPath
                /\ ~IsProtected(path[r])
                /\ response[r].kind = "i18n")
    /\ (last.response.kind = "redirect")
          ~> (last.path = LoginPath /\ last.response.kind = "i18n")

C26_Witness ==
    /\ hops = 1
    /\ \A r \in Req : pc[r] = "idle"
    /\ last.path = LoginPath /\ ~last.cookie.present
    /\ last.response.kind = "i18n"

\* The name getDatabaseName owes to an environment, by the priority
\* DATABASE_NAME, segment of the URI, MONGODB_DATABASE, "rim-ebay".
NameByPriority(e) ==
    IF e.DATABASE_NAME.set /\ e.DATABASE_NAME.value # << >>
    THEN e.DATABASE_NAME.value
    ELSE IF UriMatch(e.DATABASE_URL.value).matched
    THEN UriMatch(e.DATABASE_URL.value).group
    ELSE IF e.MONGODB_DATABASE.set /\ e.MONGODB_DATABASE.value # << >>
    THEN e.MONGODB_DATABASE.value
    ELSE DefaultDatabaseName

FirstOf(u, cs, from) ==
    LET at == { i \in from..Len(u) : u[i] \in cs } IN
    IF at = {} THEN Len(u) + 1 ELSE CHOOSE i \in at : \A j \in at : i <= j

\* The database path segment of scheme://authority/database?options: what
\* stands between the slash that ends the authority and the question mark,
\* nothing when there is no such slash.
DatabaseSegment(u) ==
    LET colon == FirstOf(u, { ":" }, 1)
        slash == FirstOf(u, { "/" }, colon + 3)
    IN IF slash > Len(u) THEN << >>
       ELSE SubSeq(u, slash + 1, FirstOf(u, { "?" }, slash + 1) - 1)

\* C28 as stated: with DATABASE_NAME unset the name taken from the URI is
\* exactly its database path segment; a URI without database segment yields
\* nothing, never its host:port part, and the fallback is used.
C28_ExtractsDatabaseSegment ==
    \A m \in DOMAIN modules :
        (modules[m].status = "loaded" /\ ~Truthy(env.DATABASE_NAME))
            => LET segment == DatabaseSegment(env.DATABASE_URL.value) IN
               modules[m].databaseName =
                   IF segment # << >> THEN segment
                   ELSE IF Truthy(env.MONGODB_DATABASE)
                   THEN env.MONGODB_DATABASE.value
                   ELSE DefaultDatabaseName

\* The modules whose evaluation created a client.
LoadedModules == { m \in DOMAIN modules : modules[m].status = "loaded" }

\* C29: every getDb of a module instance awaits the clientPromise set at its
\* load: getDb opens no connection, and once that connect() has been rejected
\* every getDb is rejected with it; the connection is not tried again.
C29_SinglePromiseNoRetry ==
    /\ connectCalls = Len(clients)
    /\ connectCalls <= Cardinality(LoadedModules)
    /\ \A m \in LoadedModules : modules[m].clientPromise \in DOMAIN clients
    /\ lastDb.outcome # "none"
          => /\ lastDb.client = modules[lastDb.module].clientPromise
             /\ lastDb.outcome = "rejected" <=> clients[lastDb.client].state = "failed"
             /\ lastDb.outcome = "db" <=> clients[lastDb.client].state = "connected"

C29_Witness ==
    /\ Len(modules) = 1 /\ Len(clients) = 1
    /\ clients[1].state = "failed"
    /\ getDbCalls = 2
    /\ lastDb.outcome = "rejected" /\ lastDb.client = 1
    /\ connectCalls = 1

====
